---- MODULE Spec2Model ----
(***************************************************************************)
(* State-machine model of run_dhce_cv.py: the 50/50 hold-out harness that  *)
(* drives clingo over a hyper-parameter grid, one split per seed.          *)
(*                                                                         *)
(* Representation notes.                                                   *)
(*  - A test error is kept as the integer N of the atom                    *)
(*    error_test_pp10k(N); the source compares N / 10000.0, and division   *)
(*    by a positive constant preserves order and equality on the integers  *)
(*    used here, so 1.0 is ErrScale.                                       *)
(*  - An answer set (the JSON "Value" list) is a sequence of atom blocks   *)
(*    [p, k]: for p = "error_test_pp10k", one atom with argument k;        *)
(*    otherwise k consecutive atoms with predicate p.                      *)
(*  - Python's None for an atom list is the empty sequence: every test of  *)
(*    an atom list in the source is a truthiness test, which None and []   *)
(*    both fail.                                                           *)
(***************************************************************************)
EXTENDS Integers, Sequences, FiniteSets, TLC

\* ---- bounds of the model ------------------------------------------------
MaxLines == 3      \* lines of data.lp
MaxRowId == 2      \* row identifiers 1..MaxRowId
MaxSeeds == 2      \* entries of seeds.txt
MaxSeed  == 1      \* seed values 0..MaxSeed

\* ---- state ---------------------------------------------------------------
VARIABLES
    data,        \* lines of data.lp
    seeds,       \* what ensure_seeds returned
    rng,         \* seed -> the draws random.Random(seed) yields in shuffle
    pc,          \* position of the script
    rows_all,
    split_no,
    train,
    test,
    splitFiles,  \* split number -> contents of runs/split<i>.lp
    best,
    cfg,         \* index in Configs of the configuration tried next
    procs,       \* what clingo answered, per configuration, in the split under way
    atoms,       \* atoms, rt = run_clingo(split_lp, consts)
    rt,
    summary,
    bestFiles,   \* split number -> contents of runs/split<i>_best.txt
    out,         \* the per-split console lines
    report,      \* the final digest, once printed
    csv          \* dhce_vs_sbf.csv, once written

vars == <<data, seeds, rng, pc, rows_all, split_no, train, test, splitFiles,
          best, cfg, procs, atoms, rt, summary, bestFiles, out, report, csv>>

\* ---- configuration (lines 17-30) ----------------------------------------
CLINGO_TIMEOUT == 60

GRID == [maxD |-> <<3, 4>>, maxE |-> <<2, 3>>, maxBody |-> <<2>>]

\* itertools.product(*GRID.values()) zipped with the keys: the last
\* hyper-parameter varies fastest.
Configs ==
    LET nD == Len(GRID.maxD)
        nE == Len(GRID.maxE)
        nB == Len(GRID.maxBody)
    IN  [i \in 1..(nD * nE * nB) |->
            [maxD    |-> GRID.maxD[((i - 1) \div (nE * nB)) + 1],
             maxE    |-> GRID.maxE[(((i - 1) \div nB) % nE) + 1],
             maxBody |-> GRID.maxBody[((i - 1) % nB) + 1]]]

NConfigs == Len(Configs)

\* err = int(a[17:-1]) / 10000.0 : the value 1.0 in units of 1/10000
ErrScale == 10000
\* best_lits = 10**9 in run_clingo
WitnessSentinelLits == 1000000000
\* best["lits"] = 9999 in the main loop
SplitSentinelLits == 9999

OkReturnCodes == {0, 10, 20, 30}

NoConsts == [none |-> TRUE]
NoTime == -1

\* ---- data.lp and load_rows (lines 41-53) --------------------------------
\* A line "val(<row>,a(<attr>),<val>)."
Line(r, a, v) == [row |-> r, attr |-> a, val |-> v]

\* pat = val\((\d+),a\(10\),[01]\)\.
PatMatches(line) == line.attr = 10 /\ line.val \in {0, 1}

RECURSIVE load_rows(_)
load_rows(lines) ==
    IF lines = <<>> THEN <<>>
    ELSE IF PatMatches(Head(lines))
         THEN <<Head(lines).row>> \o load_rows(Tail(lines))
         ELSE load_rows(Tail(lines))

\* ---- random.Random(seed).shuffle(rows) (line 116) -----------------------
\* for i in reversed(range(1, len(x))): j = randbelow(i + 1); swap x[i], x[j]
\* draws[i] is the j the generator yields at position i (0-based indices).
Draws(n) == {d \in [1..(n - 1) -> 0..(n - 1)] : \A i \in 1..(n - 1) : d[i] <= i}

Swap(x, a, b) == [x EXCEPT ![a] = x[b], ![b] = x[a]]

RECURSIVE ShuffleFrom(_, _, _)
ShuffleFrom(x, draws, i) ==
    IF i < 1 THEN x
    ELSE ShuffleFrom(Swap(x, i + 1, draws[i] + 1), draws, i - 1)

shuffle(x, draws) == ShuffleFrom(x, draws, Len(x) - 1)

\* train, test = rows[:half], rows[half:]   (lines 117-118)
SplitRows(rows) ==
    LET half == Len(rows) \div 2
    IN  [train |-> SubSeq(rows, 1, half),
         test  |-> SubSeq(rows, half + 1, Len(rows))]

\* ---- metrics (lines 98-107) ---------------------------------------------
RECURSIVE MetricsLoop(_, _)
MetricsLoop(answer, acc) ==
    IF answer = <<>> THEN acc
    ELSE LET a == Head(answer)
         IN  IF a.p = "error_test_pp10k"
             THEN MetricsLoop(Tail(answer),
                              [none |-> FALSE, err |-> a.k, lits |-> acc.lits])
             ELSE IF a.p \in {"default_body", "exception_body"}
             THEN MetricsLoop(Tail(answer), [acc EXCEPT !.lits = @ + a.k])
             ELSE MetricsLoop(Tail(answer), acc)

metrics(answer) ==
    IF answer = <<>> THEN [none |-> TRUE, err |-> 0, lits |-> 0]
    ELSE MetricsLoop(answer, [none |-> TRUE, err |-> 0, lits |-> 0])

\* Faulty variant of Better: the tie on err is not broken by the literal count.
BetterErrOnly(err, lits, bestErr, bestLits) == err < bestErr

\* err < best_err or (err == best_err and lits < best_lits)  (lines 92, 132)
Better(err, lits, bestErr, bestLits) ==
    err < bestErr \/ (err = bestErr /\ lits < bestLits)

\* ---- run_clingo (lines 64-95) -------------------------------------------
\* What subprocess.run met: whether clingo could be started at all, the
\* seconds it ran, its exit code, and its stdout, which either fails
\* json.loads (json = FALSE) or is an object whose "Call" list holds
\* "Witnesses" lists; a witness has a "Value" list or lacks the key.
RECURSIVE Flatten(_)
Flatten(calls) ==
    IF calls = <<>> THEN <<>> ELSE Head(calls) \o Flatten(Tail(calls))

RECURSIVE WitnessLoop(_, _)
WitnessLoop(wits, b) ==
    IF wits = <<>> THEN b
    ELSE LET w == Head(wits)
         IN  IF ~w.hasValue
             THEN [b EXCEPT !.raised = TRUE]          \* wit["Value"]: KeyError
             ELSE LET m == metrics(w.Value)
                  IN  IF m.none THEN WitnessLoop(Tail(wits), b)
                      ELSE IF Better(m.err, m.lits, b.err, b.lits)
                      THEN WitnessLoop(Tail(wits),
                               [b EXCEPT !.atoms = w.Value,
                                         !.err = m.err, !.lits = m.lits])
                      ELSE WitnessLoop(Tail(wits), b)

NoResult == [raised |-> FALSE, atoms |-> <<>>, rt |-> NoTime]

\* An exception no except clause of run_clingo catches.
Raised == [raised |-> TRUE, atoms |-> <<>>, rt |-> NoTime]

run_clingo(p) ==
    IF ~p.launched THEN Raised                        \* FileNotFoundError
    ELSE IF p.elapsed > CLINGO_TIMEOUT THEN NoResult  \* TimeoutExpired
    ELSE IF p.returncode \notin OkReturnCodes THEN NoResult
    ELSE IF ~p.stdout.json THEN NoResult               \* JSONDecodeError
    ELSE LET b == WitnessLoop(Flatten(p.stdout.Call),
                      [raised |-> FALSE, atoms |-> <<>>,
                       err |-> ErrScale, lits |-> WitnessSentinelLits])
         IN  IF b.raised THEN Raised
             ELSE IF b.atoms # <<>>
             THEN [raised |-> FALSE, atoms |-> b.atoms, rt |-> p.elapsed]
             ELSE NoResult

\* ---- main loop helpers (lines 123-134) ----------------------------------
InitialBest ==
    [err |-> ErrScale, lits |-> SplitSentinelLits, consts |-> NoConsts,
     atoms |-> <<>>, time |-> NoTime]

\* Faulty variant of HasBest: the split is recorded whether or not it has a best.
HasBestAlways(b) == TRUE

\* if not best["atoms"]  (line 136), negated
HasBest(b) == b.atoms # <<>>

\* Faulty variant of FoldBest: <= for <, so that a later equal candidate replaces.
FoldBestLastWins(b, r, c) ==
    LET m == metrics(r.atoms)
    IN  IF m.none THEN b
        ELSE IF m.err < b.err \/ (m.err = b.err /\ m.lits <= b.lits)
        THEN [err |-> m.err, lits |-> m.lits, consts |-> c,
              atoms |-> r.atoms, time |-> r.rt]
        ELSE b

\* Faulty variant of FoldBest: the grid fold compares the errors alone.
FoldBestErrOnly(b, r, c) ==
    LET m == metrics(r.atoms)
    IN  IF m.none THEN b
        ELSE IF m.err < b.err
        THEN [err |-> m.err, lits |-> m.lits, consts |-> c,
              atoms |-> r.atoms, time |-> r.rt]
        ELSE b

\* One pass of the grid loop body after run_clingo returned r for consts c.
FoldBest(b, r, c) ==
    LET m == metrics(r.atoms)
    IN  IF m.none THEN b
        ELSE IF Better(m.err, m.lits, b.err, b.lits)
        THEN [err |-> m.err, lits |-> m.lits, consts |-> c,
              atoms |-> r.atoms, time |-> r.rt]
        ELSE b

\* ---- final report helpers (lines 154-156) -------------------------------
RECURSIVE SumErr(_)
SumErr(s) == IF s = <<>> THEN 0 ELSE Head(s).err + SumErr(Tail(s))

\* Faulty variant of MeanErr: the sum is divided by the number of seeds.
MeanErrOverSeeds(s) == [num |-> SumErr(s), den |-> Len(seeds)]

\* mean_err = sum(s[2] for s in summary) / len(summary), as a fraction
MeanErr(s) == [num |-> SumErr(s), den |-> Len(s)]

\* min(summary, key=lambda x: x[2]): index of the first record of least err
BestErrIndex(s) ==
    CHOOSE i \in 1..Len(s) :
        /\ \A j \in 1..Len(s) : s[i].err <= s[j].err
        /\ \A j \in 1..(i - 1) : s[j].err > s[i].err

\* min(summary, key=lambda x: (x[3], x[2])): first record of least (lits, err)
LitsKeyLess(a, b) == a.lits < b.lits \/ (a.lits = b.lits /\ a.err < b.err)

BestLitsIndex(s) ==
    CHOOSE i \in 1..Len(s) :
        /\ \A j \in 1..Len(s) : ~LitsKeyLess(s[j], s[i])
        /\ \A j \in 1..(i - 1) : LitsKeyLess(s[i], s[j])

\* one row of dhce_vs_sbf.csv (lines 167-170)
CsvRow(s) ==
    [split |-> s.split, seed |-> s.seed, testError |-> s.err,
     literals |-> s.lits, maxD |-> s.consts.maxD, maxE |-> s.consts.maxE,
     maxBody |-> s.consts.maxBody, runtimeSec |-> s.time]

\* ---- inputs --------------------------------------------------------------
\* Lines data.lp may hold: label facts (attribute 10, value 0 or 1) of the
\* rows, a fact of another attribute, and a label fact with a non-Boolean
\* value.
DataLines ==
    {Line(r, 10, v) : r \in 1..MaxRowId, v \in {0, 1}}
        \cup {Line(1, 3, 1), Line(MaxRowId, 10, 2)}

SeqsUpTo(S, n) == UNION {[1..m -> S] : m \in 0..n}

DataFiles == SeqsUpTo(DataLines, MaxLines)

\* seeds.txt as ensure_seeds returns it: never empty.
SeedFiles == SeqsUpTo(0..MaxSeed, MaxSeeds) \ {<<>>}

\* The file ensure_seeds writes, cut to n entries: 0, 1, ..., n-1.
DefaultSeeds(n) == [i \in 1..n |-> i - 1]

ErrAtom(v) == [p |-> "error_test_pp10k", k |-> v]
DefaultBody(n) == [p |-> "default_body", k |-> n]
ExceptionBody(n) == [p |-> "exception_body", k |-> n]
OtherAtom(n) == [p |-> "default_head", k |-> n]

Witness(answer) == [hasValue |-> TRUE, Value |-> answer]
WitnessNoValue == [hasValue |-> FALSE, Value |-> <<>>]
Json(calls) == [json |-> TRUE, Call |-> calls]
NotJson == [json |-> FALSE, Call |-> <<>>]
Completed(secs, rc, stdout) ==
    [launched |-> TRUE, elapsed |-> secs, returncode |-> rc, stdout |-> stdout]

\* What one clingo call may do.  Each output is named by what it exercises.
OutTimeout == Completed(CLINGO_TIMEOUT + 1, 0, NotJson)
OutBadExit ==
    Completed(1, 65, Json(<< <<Witness(<<ErrAtom(100), DefaultBody(1)>>)>> >>))
OutBadJson == Completed(2, 0, NotJson)
OutUnscored ==
    Completed(2, 20, Json(<< <<>>,
                            <<Witness(<<>>), Witness(<<DefaultBody(1)>>)>> >>))
OutMulti ==
    Completed(3, 30,
        Json(<< <<Witness(<<ErrAtom(700), DefaultBody(1)>>),
                  Witness(<<DefaultBody(2), ErrAtom(500), ExceptionBody(1)>>),
                  Witness(<<ExceptionBody(5)>>)>>,
                <<Witness(<<ErrAtom(500), DefaultBody(2)>>),
                  Witness(<<OtherAtom(1), ErrAtom(500), DefaultBody(2)>>)>> >>))
OutWorse ==
    Completed(1, 10, Json(<< <<Witness(<<ErrAtom(700), DefaultBody(1)>>)>> >>))
OutAllWrong ==
    Completed(2, 10, Json(<< <<Witness(<<ErrAtom(ErrScale), DefaultBody(3)>>)>> >>))
OutSentinel ==
    Completed(2, 10,
        Json(<< <<Witness(<<ErrAtom(ErrScale), DefaultBody(WitnessSentinelLits)>>),
                  Witness(<<ErrAtom(ErrScale), DefaultBody(SplitSentinelLits)>>)>> >>))
OutNoValue ==
    Completed(2, 10,
        Json(<< <<Witness(<<ErrAtom(500), DefaultBody(2)>>), WitnessNoValue>> >>))
OutNoClingo ==
    [launched |-> FALSE, elapsed |-> 0, returncode |-> 0, stdout |-> NotJson]

SolverOutputs ==
    {OutTimeout, OutBadExit, OutBadJson, OutUnscored, OutMulti, OutWorse,
     OutAllWrong, OutSentinel, OutNoValue, OutNoClingo}

StubOutputs == {OutWorse, OutNoValue}

\* ---- initial state --------------------------------------------------------
NoReport == [none |-> TRUE]
NoCsv == [written |-> FALSE, rows |-> <<>>]
EmptyMap == [x \in {} |-> 0]

InitRest ==
    /\ rng = EmptyMap
    /\ pc = "load"
    /\ rows_all = <<>>
    /\ split_no = 0
    /\ train = <<>>
    /\ test = <<>>
    /\ splitFiles = EmptyMap
    /\ best = InitialBest
    /\ cfg = 1
    /\ procs = <<>>
    /\ atoms = <<>>
    /\ rt = NoTime
    /\ summary = <<>>
    /\ bestFiles = EmptyMap
    /\ out = <<>>
    /\ report = NoReport
    /\ csv = NoCsv

\* One labelled row (or none), the seed file 0..n-1, every solver output.
Init ==
    /\ data \in {<<Line(1, 10, 1), Line(1, 3, 1)>>, <<Line(1, 3, 1)>>}
    /\ seeds \in {DefaultSeeds(n) : n \in 1..MaxSeeds}
    /\ InitRest

\* Every data file and seed file within the bounds.
InitSplit ==
    /\ data \in DataFiles
    /\ seeds \in SeedFiles
    /\ InitRest

\* ---- the script ----------------------------------------------------------
\* lines 110-112: rows_all = load_rows(); sys.exit when no row is found
Load ==
    /\ pc = "load"
    /\ rows_all' = load_rows(data)
    /\ pc' = IF load_rows(data) = <<>> THEN "no_rows" ELSE "split"
    /\ UNCHANGED <<data, seeds, rng, split_no, train, test, splitFiles, best,
                   cfg, procs, atoms, rt, summary, bestFiles, out, report, csv>>

\* lines 114-124: the head of one iteration of the loop over the seeds
StartSplit ==
    /\ pc = "split"
    /\ split_no < Len(seeds)
    /\ LET no   == split_no + 1
           seed == seeds[no]
       IN  \E d \in Draws(Len(rows_all)) :
             /\ seed \in DOMAIN rng => d = rng[seed]
             /\ rng' = (seed :> d) @@ rng
             /\ LET sp == SplitRows(shuffle(rows_all, d))
                IN  /\ train' = sp.train
                    /\ test' = sp.test
                    /\ splitFiles' = (no :> sp) @@ splitFiles
             /\ split_no' = no
    /\ best' = InitialBest
    /\ cfg' = 1
    /\ procs' = <<>>
    /\ pc' = "grid"
    /\ UNCHANGED <<data, seeds, rows_all, atoms, rt, summary, bestFiles, out,
                   report, csv>>

\* lines 126-134: one configuration of the grid, clingo answering with p
GridStep(p) ==
    /\ pc = "grid"
    /\ procs' = Append(procs, p)
    /\ LET r == run_clingo(p)
       IN  IF r.raised
           THEN /\ pc' = "raised"
                /\ UNCHANGED <<best, cfg, atoms, rt>>
           ELSE /\ atoms' = r.atoms
                /\ rt' = r.rt
                /\ best' = FoldBest(best, r, Configs[cfg])
                /\ cfg' = cfg + 1
                /\ pc' = IF cfg = NConfigs THEN "endsplit" ELSE "grid"
    /\ UNCHANGED <<data, seeds, rng, rows_all, split_no, train, test,
                   splitFiles, summary, bestFiles, out, report, csv>>

\* lines 136-148: skip the split, or write its best answer and record it.
\* procs, atoms and rt are dead from here on (the next iteration assigns
\* atoms and rt before reading them), and are cleared.
EndSplit ==
    /\ pc = "endsplit"
    /\ IF ~HasBest(best)
       THEN /\ out' = Append(out, [split |-> split_no, found |-> FALSE])
            /\ UNCHANGED <<bestFiles, summary>>
       ELSE /\ bestFiles' =
                 (split_no :> [time |-> best.time, atoms |-> best.atoms])
                     @@ bestFiles
            /\ summary' = Append(summary,
                 [split |-> split_no, seed |-> seeds[split_no],
                  err |-> best.err, lits |-> best.lits,
                  consts |-> best.consts, time |-> best.time])
            /\ out' = Append(out,
                 [split |-> split_no, found |-> TRUE, err |-> best.err,
                  lits |-> best.lits, time |-> best.time,
                  consts |-> best.consts])
    /\ procs' = <<>>
    /\ atoms' = <<>>
    /\ rt' = NoTime
    /\ pc' = IF split_no < Len(seeds) THEN "split" ELSE "report"
    /\ UNCHANGED <<data, seeds, rng, rows_all, split_no, train, test,
                   splitFiles, best, cfg, report, csv>>

\* lines 151-172: sys.exit when no split succeeded, else digest and CSV
Report ==
    /\ pc = "report"
    /\ IF summary = <<>>
       THEN /\ pc' = "no_splits"
            /\ UNCHANGED <<report, csv>>
       ELSE /\ report' = [none |-> FALSE,
                          best_err |-> summary[BestErrIndex(summary)],
                          best_lits |-> summary[BestLitsIndex(summary)],
                          mean_err |-> MeanErr(summary)]
            /\ csv' = [written |-> TRUE,
                       rows |-> [i \in 1..Len(summary) |-> CsvRow(summary[i])]]
            /\ pc' = "done"
    /\ UNCHANGED <<data, seeds, rng, rows_all, split_no, train, test,
                   splitFiles, best, cfg, procs, atoms, rt, summary,
                   bestFiles, out>>

Grid == \E p \in SolverOutputs : GridStep(p)

GridStub == \E p \in StubOutputs : GridStep(p)

Next == Load \/ StartSplit \/ Grid \/ EndSplit \/ Report

NextSplit == Load \/ StartSplit \/ GridStub \/ EndSplit \/ Report

Spec == Init /\ [][Next]_vars

SpecSplit == InitSplit /\ [][NextSplit]_vars

\* ---- vocabulary of the properties -----------------------------------------
Range(s) == {s[i] : i \in DOMAIN s}
Last(s) == s[Len(s)]

\* The score of an answer set, stated without the loop of metrics: the
\* argument of its last error atom, and the number of its body atoms.
HasScore(v) == \E i \in DOMAIN v : v[i].p = "error_test_pp10k"

ErrOf(v) ==
    LET i == CHOOSE n \in DOMAIN v :
                 /\ v[n].p = "error_test_pp10k"
                 /\ \A m \in DOMAIN v : m > n => v[m].p # "error_test_pp10k"
    IN  v[i].k

RECURSIVE LitsOf(_)
LitsOf(v) ==
    IF v = <<>> THEN 0
    ELSE (IF Head(v).p \in {"default_body", "exception_body"}
          THEN Head(v).k ELSE 0) + LitsOf(Tail(v))

ScoreOf(v) == <<ErrOf(v), LitsOf(v)>>

LexLess(a, b) == a[1] < b[1] \/ (a[1] = b[1] /\ a[2] < b[2])

\* clingo ran within the time limit, exited with an accepted code and printed
\* JSON.
Usable(p) ==
    /\ p.launched
    /\ p.elapsed <= CLINGO_TIMEOUT
    /\ p.returncode \in {0, 10, 20, 30}
    /\ p.stdout.json

AllWitnesses(p) == Flatten(p.stdout.Call)

\* The answer sets of a usable result that have a score.
ScoredValues(p) ==
    IF Usable(p)
    THEN {w.Value : w \in {x \in Range(AllWitnesses(p)) :
                              x.hasValue /\ HasScore(x.Value)}}
    ELSE {}

\* Tables over the solver outputs, computed once: the scored answer sets of
\* each output, the score of each scored answer set, and the answer set
\* run_clingo returns for each output.
ScoredOf == [p \in SolverOutputs |-> ScoredValues(p)]

Score == [v \in UNION {ScoredOf[p] : p \in SolverOutputs} |-> ScoreOf(v)]

Candidate == [p \in SolverOutputs |-> run_clingo(p).atoms]

\* The scored answer sets of all configurations tried in the split under way.
SplitScored == UNION {ScoredOf[procs[i]] : i \in DOMAIN procs}

RECURSIVE SumOver(_, _)
SumOver(S, f) ==
    IF S = {} THEN 0
    ELSE LET x == CHOOSE y \in S : TRUE IN f[x] + SumOver(S \ {x}, f)

Terminated == pc \in {"done", "no_splits", "no_rows", "raised"}

\* ---- C1 -------------------------------------------------------------------
\* C1: for the row universe U that load_rows returned and every seed, the
\* split built in the main loop has |train| = floor(|U|/2) and
\* |train| + |test| = |U|, train and test are disjoint, and their union, as
\* a set, is U.  (U is the set of loaded row identifiers.)
C1_SplitPartition ==
    split_no >= 1 =>
        LET U == Range(rows_all)
            f == splitFiles[split_no]
        IN  /\ f.train = train /\ f.test = test
            /\ Len(train) = Cardinality(U) \div 2
            /\ Len(train) + Len(test) = Cardinality(U)
            /\ Range(train) \cap Range(test) = {}
            /\ Range(train) \cup Range(test) = U

\* ---- C2 -------------------------------------------------------------------
\* C2: the answer set run_clingo returns is a scored witness of the result,
\* and no scored witness of any Call group of that result has a
\* lexicographically smaller (testError, literalCount); witnesses without a
\* score are never returned; and a result holding a scored witness below the
\* initial best (1.0, 10**9) does return one.
C2_WitnessSelection ==
    (pc \in {"grid", "endsplit"} /\ procs # <<>>) =>
        LET S == ScoredOf[Last(procs)]
        IN  /\ atoms # <<>> =>
                /\ atoms \in S
                /\ \A v \in S : ~LexLess(Score[v], Score[atoms])
                /\ rt = Last(procs).elapsed
            /\ (\E v \in S :
                    LexLess(Score[v], <<ErrScale, WitnessSentinelLits>>))
                  => atoms # <<>>

\* Among witnesses scoring (0.07, 1), (0.05, 3), none, (0.05, 2), (0.05, 2)
\* in two Call groups, the one scoring (0.05, 2) was returned.
C2_Witness ==
    /\ pc \in {"grid", "endsplit"}
    /\ procs # <<>>
    /\ Last(procs) = OutMulti
    /\ atoms = <<ErrAtom(500), DefaultBody(2)>>

\* ---- C3 -------------------------------------------------------------------
\* C3: after the grid loop, the split's best, when there is one, is the
\* candidate of the configuration whose (testError, literalCount) is least
\* among the configurations that returned a candidate, and of the
\* configurations tied on both it is the first in grid order; a candidate
\* below the initial best (1.0, 9999) always yields a best.
C3_ConfigSelection ==
    pc = "endsplit" =>
        LET cand == [i \in 1..NConfigs |-> Candidate[procs[i]]]
            C == {i \in 1..NConfigs : cand[i] # <<>>}
            sc == [i \in C |-> Score[cand[i]]]
        IN  /\ best.atoms # <<>> =>
                /\ C # {}
                /\ LET w == CHOOSE i \in C :
                                /\ \A j \in C : ~LexLess(sc[j], sc[i])
                                /\ \A j \in C : j < i => sc[j] # sc[i]
                   IN  /\ best.consts = Configs[w]
                       /\ <<best.err, best.lits>> = sc[w]
                       /\ best.atoms = cand[w]
                       /\ best.time = procs[w].elapsed
            /\ (\E i \in C : LexLess(sc[i], <<ErrScale, SplitSentinelLits>>))
                  => best.atoms # <<>>

\* The first configuration scored (0.07, 1), the second and the third both
\* (0.05, 2), the fourth timed out: the second configuration is the best.
C3_Witness ==
    /\ pc = "endsplit"
    /\ procs = <<OutWorse, OutMulti, OutMulti, OutTimeout>>
    /\ best.consts = Configs[2]

\* ---- C4 -------------------------------------------------------------------
\* An invocation the claim calls bad: a timeout, an exit code outside
\* {0, 10, 20, 30}, output that is not JSON or whose witnesses do not all
\* hold a Value list, or witnesses none of which has a score.
BadInvocation(p) ==
    /\ p.launched
    /\ \/ p.elapsed > CLINGO_TIMEOUT
       \/ p.returncode \notin {0, 10, 20, 30}
       \/ ~p.stdout.json
       \/ \E w \in Range(AllWitnesses(p)) : ~w.hasValue
       \/ \A w \in Range(AllWitnesses(p)) : w.hasValue /\ ~HasScore(w.Value)

\* C4: a bad invocation never aborts the experiment: run_clingo yields no
\* candidate, the split's best so far is unchanged, the run does not
\* terminate, and the grid moves on to the next configuration.
C4_BadInvocationSkipped ==
    [][(pc = "grid" /\ procs' # procs /\ BadInvocation(Last(procs')))
          => /\ pc' \in {"grid", "endsplit"}
             /\ atoms' = <<>>
             /\ best' = best
             /\ cfg' = cfg + 1]_vars

\* ---- C5 -------------------------------------------------------------------
\* C5: a split ends without a best exactly when no witness of any
\* configuration of the grid had a score.
C5_SkippedIffNoScore ==
    pc = "endsplit" => (best.atoms = <<>> <=> SplitScored = {})

\* ---- C6 -------------------------------------------------------------------
\* C6: the run ends fatally if and only if no split produced a candidate,
\* and then no summary file is written; if some split produced a candidate
\* the run ends after the report, with the summary file written.
C6_FatalIffNoCandidate ==
    Terminated =>
        /\ pc # "done" <=> summary = <<>>
        /\ summary = <<>> => ~csv.written
        /\ summary # <<>> => csv.written

\* ---- C7 -------------------------------------------------------------------
C7_State ==
    /\ Len(summary) <= Len(seeds)
    /\ \A i \in DOMAIN summary :
          /\ summary[i].split \in 1..split_no
          /\ summary[i].seed = seeds[summary[i].split]
    /\ \A i, j \in DOMAIN summary : i < j => summary[i].split < summary[j].split
    /\ DOMAIN bestFiles = {summary[i].split : i \in DOMAIN summary}
    /\ \A i \in DOMAIN out : out[i].split = i
    /\ \A k \in DOMAIN out : out[k].found <=> k \in DOMAIN bestFiles

C7_Step ==
    /\ split_no' \in {split_no, split_no + 1}
    /\ IF pc = "endsplit" /\ best.atoms # <<>>
       THEN /\ summary' = Append(summary,
                  [split |-> split_no, seed |-> seeds[split_no],
                   err |-> best.err, lits |-> best.lits,
                   consts |-> best.consts, time |-> best.time])
            /\ DOMAIN bestFiles' = DOMAIN bestFiles \cup {split_no}
            /\ bestFiles'[split_no].atoms = best.atoms
            /\ split_no \notin DOMAIN bestFiles
       ELSE /\ summary' = summary
            /\ bestFiles' = bestFiles

\* C7: the seeds are taken in order; a split is recorded in the summary, and
\* its best-answer file written, if and only if it ended with a best, and a
\* skipped split adds nothing.  So the summary has at most one record per
\* seed, in increasing split number, each carrying the seed at that 1-based
\* position of the seed sequence.
C7_SummaryPerSeed == [](C7_State) /\ [][C7_Step]_vars

\* Of two seeds the first split was skipped and the second one recorded.
C7_Witness ==
    /\ pc = "report"
    /\ Len(seeds) = 2
    /\ Len(summary) = 1
    /\ summary[1].split = 2
    /\ summary[1].seed = seeds[2]

\* ---- C8 -------------------------------------------------------------------
\* C8: the mean error of the report is the sum of the test errors of the
\* splits that wrote a best answer, divided by their number: a split without
\* a candidate counts neither in the sum nor in the divisor.
C8_MeanOverSuccessful ==
    pc = "done" =>
        LET ok == DOMAIN bestFiles
            skipped == {i \in DOMAIN out : ~out[i].found}
            errs == [k \in ok |-> ErrOf(bestFiles[k].atoms)]
        IN  /\ report.mean_err.den = Cardinality(ok)
            /\ report.mean_err.den = Len(seeds) - Cardinality(skipped)
            /\ report.mean_err.num = SumOver(ok, errs)

\* Two seeds, one split skipped, the other at error 0.07: the mean is 0.07.
C8_Witness ==
    /\ pc = "done"
    /\ Len(seeds) = 2
    /\ \E i \in DOMAIN out : ~out[i].found
    /\ report.mean_err = [num |-> 700, den |-> 1]

\* ---- C9 -------------------------------------------------------------------
\* C9: the two folds amount to one flat selection over all scored witnesses
\* of all configurations of the split, started from the split's initial best
\* (1.0, 9999): the split has a best exactly when some scored witness is
\* below the initial best, and then its (testError, literalCount) is the
\* lexicographic minimum over all scored witnesses of the split.
C9_TwoLevelIsFlat ==
    pc = "endsplit" =>
        LET sc == [v \in SplitScored |-> Score[v]]
            below == {v \in SplitScored :
                         LexLess(sc[v], <<ErrScale, SplitSentinelLits>>)}
        IN  /\ best.atoms # <<>> <=> below # {}
            /\ best.atoms # <<>> =>
                  /\ best.atoms \in SplitScored
                  /\ <<best.err, best.lits>> = sc[best.atoms]
                  /\ \A v \in SplitScored :
                        ~LexLess(sc[v], <<best.err, best.lits>>)

\* Candidates (0.07, 1), (1.0, 9999), (0.05, 2) and (1.0, 3) of the four
\* configurations: the best is (0.05, 2).
C9_Witness ==
    /\ pc = "endsplit"
    /\ procs = <<OutWorse, OutSentinel, OutMulti, OutAllWrong>>
    /\ best.err = 500
    /\ best.lits = 2

\* ---- C10 ------------------------------------------------------------------
\* C10: what clingo answers in one split does not reach the other splits:
\* however the run ends, every split other than the one whose answers ended
\* it has been generated, as the split of rows_all under its own seed.
C10_SplitsIsolated ==
    (Terminated /\ pc # "no_rows") =>
        \A j \in 1..Len(seeds) :
            (pc = "raised" => j # split_no) =>
                /\ j \in DOMAIN splitFiles
                /\ splitFiles[j] = SplitRows(shuffle(rows_all, rng[seeds[j]]))

====
